---- MODULE Spec2Model ----
(***************************************************************************)
(* Configuration loading (src/config.py) and the shared type catalog       *)
(* (src/types.py).                                                         *)
(*                                                                         *)
(* The code is written against pydantic 1.x (BaseSettings and validator    *)
(* are imported from pydantic itself), so field validation, the URL        *)
(* builder and the URL validator follow pydantic 1.x:                      *)
(*   - BaseSettings.Config.validate_all is True: validators also run on    *)
(*     the default of a field that was not supplied;                       *)
(*   - fields are validated in declaration order, a validator sees the     *)
(*     fields that validated before it, and an exception (ValueError,      *)
(*     TypeError, AssertionError) of a validator is a validation error;    *)
(*   - AnyUrl.build takes the keywords scheme, user, password, host, port, *)
(*     path (any other keyword is collected and not used) and             *)
(*     concatenates the parts with +.                                      *)
(*                                                                         *)
(* A Python string is the sequence of its lexemes: a word is one token,    *)
(* each decimal digit is one token, and "://", ":", "@", "/" and " " are   *)
(* tokens of their own.  "db:5432/main" is <<"db",":","5","4","3","2",     *)
(* "/","main">>.                                                           *)
(***************************************************************************)
EXTENDS Integers, Sequences, FiniteSets, TLC

VARIABLES
    env,        \* the process environment: field name -> raw string or Absent
    phase,      \* "unloaded", "loaded" (Settings() returned), "failed" (it raised)
    settings,   \* the Settings object: field name -> value; <<>> while there is none
    errors,     \* the fields of the ValidationError Settings() raised
    last,       \* the latest projection getter call and its outcome
    prevSame,   \* the outcome of the call before it, when that was the same getter
    exc,        \* the latest APIError (or subtype) constructed, with its arguments
    guard,      \* the latest is_valid_json call: its argument and its result
    req,        \* the latest AIRequest construction: its arguments and its outcome
    logconf,    \* the latest get_logging_config call: its arguments and its outcome
    fs          \* the file system at the directory "logs": "absent", "dir", "file"
                \* (a file of that name) or "denied" (its parent is not writable)

vars == <<env, phase, settings, errors, last, prevSame, exc, guard, req, logconf, fs>>

----------------------------------------------------------------------------
(* Python values *)

PyStr(s)  == [t |-> "str",  s |-> s,    n |-> 0]
PyInt(i)  == [t |-> "int",  s |-> <<>>, n |-> i]
PyBool(b) == [t |-> "bool", s |-> <<>>, n |-> IF b THEN 1 ELSE 0]
PyList(s) == [t |-> "list", s |-> s,    n |-> 0]
PyDict(s) == [t |-> "dict", s |-> s,  n |-> 0]
None    == [t |-> "none", s |-> <<>>, n |-> 0]
\* a variable the environment does not hold
Absent  == [t |-> "absent", s |-> <<>>, n |-> 0]
\* an exception leaving the expression, by its class name
Raise(e) == [t |-> "raise", s |-> <<e>>, n |-> 0]

IsRaise(v) == v.t = "raise"

\* bool(v)
Truthy(v) ==
    CASE v.t = "str"  -> Len(v.s) > 0
      [] v.t = "list" -> Len(v.s) > 0
      [] v.t = "dict" -> Len(v.s) > 0
      [] v.t = "int"  -> v.n # 0
      [] v.t = "bool" -> v.n # 0
      [] OTHER        -> FALSE

\* a or b
Or(a, b) == IF Truthy(a) THEN a ELSE b

Digits == {"0", "1", "2", "3", "4", "5", "6", "7", "8", "9"}

DigitVal(d) ==
    CASE d = "0" -> 0 [] d = "1" -> 1 [] d = "2" -> 2 [] d = "3" -> 3
      [] d = "4" -> 4 [] d = "5" -> 5 [] d = "6" -> 6 [] d = "7" -> 7
      [] d = "8" -> 8 [] d = "9" -> 9

DigitStr(k) ==
    CASE k = 0 -> "0" [] k = 1 -> "1" [] k = 2 -> "2" [] k = 3 -> "3"
      [] k = 4 -> "4" [] k = 5 -> "5" [] k = 6 -> "6" [] k = 7 -> "7"
      [] k = 8 -> "8" [] k = 9 -> "9"

AllDigits(s) == Len(s) > 0 /\ \A i \in 1..Len(s) : s[i] \in Digits

RECURSIVE DecimalValue(_)
DecimalValue(s) ==
    IF Len(s) = 0 THEN 0
    ELSE 10 * DecimalValue(SubSeq(s, 1, Len(s) - 1)) + DigitVal(s[Len(s)])

RECURSIVE DecimalDigits(_)
DecimalDigits(k) ==
    IF k < 10 THEN <<DigitStr(k)>>
    ELSE Append(DecimalDigits(k \div 10), DigitStr(k % 10))

\* int(v): of a string, its decimal value, ValueError when it is not a number
int(v) ==
    CASE v.t = "int" -> v
      [] v.t = "bool" -> PyInt(v.n)
      [] v.t = "str" -> IF AllDigits(v.s) THEN PyInt(DecimalValue(v.s))
                        ELSE Raise("ValueError")
      [] OTHER -> Raise("TypeError")

\* the text an f-string puts for {v}
Format(v) ==
    CASE v.t = "str" -> v.s
      [] v.t = "int" -> DecimalDigits(v.n)
      [] OTHER -> <<"None">>

\* a + b on strings: TypeError unless both are strings
Concat(a, b) ==
    IF IsRaise(a) THEN a
    ELSE IF a.t = "str" /\ b.t = "str" THEN PyStr(a.s \o b.s)
    ELSE Raise("TypeError")

\* url = parts[1]; url += parts[2]; ...
RECURSIVE ConcatAll(_)
ConcatAll(parts) ==
    IF Len(parts) = 1 THEN parts[1]
    ELSE Concat(ConcatAll(SubSeq(parts, 1, Len(parts) - 1)), parts[Len(parts)])

----------------------------------------------------------------------------
\* pydantic.networks: AnyUrl.build and AnyUrl.validate, as the two
\* assemblers and the two URI fields use them

\* kwargs.get(k): the keyword argument k, None when the call does not pass it
Kw(kwargs, k) == IF k \in DOMAIN kwargs THEN kwargs[k] ELSE None

\* AnyUrl.build(scheme, user=None, password=None, host, port=None,
\* path=None, ...), keyword-only: the parts are read by these names; a keyword of another
\* name (such as `username`) is collected and not used.
AnyUrl_build(kwargs) ==
    LET user == Kw(kwargs, "user")
        password == Kw(kwargs, "password")
        port == Kw(kwargs, "port")
        path == Kw(kwargs, "path")
    IN  ConcatAll(
            <<kwargs.scheme, PyStr(<<"://">>)>>
            \o (IF Truthy(user) THEN <<user>> ELSE <<>>)
            \o (IF Truthy(password) THEN <<PyStr(<<":">>), password>> ELSE <<>>)
            \o (IF Truthy(user) \/ Truthy(password) THEN <<PyStr(<<"@">>)>> ELSE <<>>)
            \o <<kwargs.host>>
            \o (IF Truthy(port) THEN <<PyStr(<<":">>), port>> ELSE <<>>)
            \o (IF Truthy(path) THEN <<path>> ELSE <<>>))

PostgresSchemes == {"postgres", "postgresql"}
RedisSchemes == {"redis", "rediss"}

\* str.strip()
Strip(s) ==
    LET keep == {i \in 1..Len(s) : s[i] # " "}
    IN  IF keep = {} THEN <<>>
        ELSE SubSeq(s, CHOOSE i \in keep : \A j \in keep : i <= j,
                       CHOOSE i \in keep : \A j \in keep : i >= j)

\* the index after the longest run of tokens outside `stop` that starts at i
RunEnd(s, i, stop) ==
    CHOOSE j \in i..(Len(s) + 1) :
        /\ (j = Len(s) + 1 \/ s[j] \in stop)
        /\ \A k \in i..(j - 1) : s[k] \notin stop

\* the index after the longest run of digits that starts at i
DigitsEnd(s, i) ==
    CHOOSE j \in i..(Len(s) + 1) :
        /\ (j = Len(s) + 1 \/ s[j] \notin Digits)
        /\ \A k \in i..(j - 1) : s[k] \in Digits

\* the url regex  [scheme://] [user[:password]@] [host] [:port] [/path]
\* on the string u, part by part from the left; each operator takes the
\* index its part starts at and gives the parts found from there on

\* (/path)?
MatchPath(u, i) ==
    [end |-> IF i <= Len(u) /\ u[i] = "/" THEN RunEnd(u, i + 1, {" "}) ELSE i]

\* (:port)?
MatchPort(u, i) ==
    LET e == IF i <= Len(u) /\ u[i] = ":" THEN DigitsEnd(u, i + 1) ELSE i
    IN  IF e > i + 1
        THEN [hasPort |-> TRUE, port |-> SubSeq(u, i + 1, e - 1)] @@ MatchPath(u, e)
        ELSE [hasPort |-> FALSE, port |-> <<>>] @@ MatchPath(u, i)

\* host?
MatchHost(u, i) ==
    LET e == RunEnd(u, i, {" ", "/", ":"})
    IN  [hasHost |-> e > i] @@ MatchPort(u, e)

\* (user(:password)?@)?
MatchUserInfo(u, i) ==
    LET ats == {j \in i..(RunEnd(u, i, {" ", "/"}) - 1) : u[j] = "@"}
    IN  IF ats = {} THEN [hasUser |-> FALSE] @@ MatchHost(u, i)
        ELSE [hasUser |-> TRUE]
                @@ MatchHost(u, (CHOOSE j \in ats : \A k \in ats : j >= k) + 1)

\* (scheme://)?
MatchUrl(u) ==
    IF Len(u) >= 2 /\ u[2] = "://" /\ u[1] \notin Digits \cup {"://", ":", "@", "/", " "}
    THEN [hasScheme |-> TRUE, scheme |-> u[1]] @@ MatchUserInfo(u, 3)
    ELSE [hasScheme |-> FALSE, scheme |-> ""] @@ MatchUserInfo(u, 1)

\* validate_parts, the check that the regex consumed the whole string, and
\* validate_host, on the parts m of the string u
ValidateParts(u, m, allowed_schemes, user_required, host_required) ==
    IF ~m.hasScheme THEN Raise("UrlSchemeError")
    ELSE IF m.scheme \notin allowed_schemes THEN Raise("UrlSchemePermittedError")
    ELSE IF m.hasPort /\ DecimalValue(m.port) > 65535 THEN Raise("UrlPortError")
    ELSE IF user_required /\ ~m.hasUser THEN Raise("UrlUserInfoError")
    ELSE IF m.end # Len(u) + 1 THEN Raise("UrlExtraError")
    ELSE IF host_required /\ ~m.hasHost THEN Raise("UrlHostError")
    ELSE PyStr(u)

\* the string of v, stripped
Stripped(v) == Strip(v.s)

\* AnyUrl.validate for a DSN class with the given allowed_schemes,
\* user_required and host_required. The value kept is the stripped string.
AnyUrl_validate(v, allowed_schemes, user_required, host_required) ==
    IF v.t # "str" THEN Raise("StrError")
    ELSE IF Len(Stripped(v)) = 0 THEN Raise("AnyStrMinLengthError")
    ELSE ValidateParts(Stripped(v), MatchUrl(Stripped(v)),
                       allowed_schemes, user_required, host_required)

----------------------------------------------------------------------------
\* pydantic field validation

\* the validators pydantic runs for a field's declared type
TypeValidate(type, v) ==
    CASE type = "str" ->
            IF v.t = "str" THEN v
            ELSE IF v.t = "int" THEN PyStr(DecimalDigits(v.n))
            ELSE Raise("StrError")
      [] type = "int" ->
            IF IsRaise(int(v)) THEN Raise("IntegerError") ELSE int(v)
      [] type = "bool" ->
            IF v.t = "bool" THEN v ELSE Raise("BoolError")
      [] type = "list" ->
            IF v.t = "list" THEN v ELSE Raise("ListError")
      [] type = "dict" ->
            IF v.t = "dict" THEN v ELSE Raise("DictError")
      [] type = "Literal[memory,redis]" ->
            IF v \in {PyStr(<<"memory">>), PyStr(<<"redis">>)} THEN v
            ELSE Raise("WrongConstantError")
      [] type = "PostgresDsn" -> AnyUrl_validate(v, PostgresSchemes, TRUE, TRUE)
      [] type = "RedisDsn" -> AnyUrl_validate(v, RedisSchemes, FALSE, FALSE)

\* a field of a model: its name, declared type, whether Optional[...],
\* whether required (Field(...)), and its default
Fld(name, type, optional, required, default) ==
    [name |-> name, type |-> type, optional |-> optional,
     required |-> required, default |-> default]

\* Field(None, env=...) in place of Field(..., env=...)
Req_DefaultNone(name, type) == Fld(name, type, TRUE, FALSE, None)

Req(name, type) == Fld(name, type, FALSE, TRUE, None)
Dft(name, type, default) == Fld(name, type, FALSE, FALSE, default)
Opt(name, type) == Fld(name, type, TRUE, FALSE, None)

LOG_FORMAT_DEFAULT ==
    PyStr(<<"%(asctime)s - %(name)s - %(levelname)s - %(message)s">>)

\* class Settings(BaseSettings): the fields in declaration order
SettingsFields == <<
    Dft("APP_NAME", "str", PyStr(<<"AI-Powered Project">>)),
    Dft("APP_ENV", "str", PyStr(<<"development">>)),
    Dft("DEBUG", "bool", PyBool(FALSE)),
    Dft("API_V1_PREFIX", "str", PyStr(<<"/", "api", "/", "v1">>)),
    Req("SECRET_KEY", "str"),
    Dft("ALGORITHM", "str", PyStr(<<"HS256">>)),
    Dft("ACCESS_TOKEN_EXPIRE_MINUTES", "int", PyInt(30)),
    Dft("REFRESH_TOKEN_EXPIRE_DAYS", "int", PyInt(7)),
    Dft("ALLOWED_HOSTS", "list", PyList(<<>>)),
    Dft("CORS_ORIGINS", "list", PyList(<<>>)),
    Req("POSTGRES_SERVER", "str"),
    Req("POSTGRES_USER", "str"),
    Req("POSTGRES_PASSWORD", "str"),
    Req("POSTGRES_DB", "str"),
    Req("POSTGRES_PORT", "str"),
    Opt("SQLALCHEMY_DATABASE_URI", "PostgresDsn"),
    Req("REDIS_HOST", "str"),
    Req("REDIS_PORT", "int"),
    Opt("REDIS_PASSWORD", "str"),
    Dft("REDIS_DB", "int", PyInt(0)),
    Opt("REDIS_URI", "RedisDsn"),
    Req("OPENAI_API_KEY", "str"),
    Opt("ANTHROPIC_API_KEY", "str"),
    Opt("GOOGLE_API_KEY", "str"),
    Dft("LOG_LEVEL", "str", PyStr(<<"INFO">>)),
    Dft("LOG_FORMAT", "str", LOG_FORMAT_DEFAULT),
    Opt("LOG_FILE", "str"),
    Dft("RATE_LIMIT_ENABLED", "bool", PyBool(TRUE)),
    Dft("RATE_LIMIT_REQUESTS", "int", PyInt(60)),
    Dft("RATE_LIMIT_BURST", "int", PyInt(10)),
    Dft("RATE_LIMIT_STORAGE", "str", PyStr(<<"memory">>)),
    Dft("METRICS_ENABLED", "bool", PyBool(TRUE)),
    Dft("METRICS_PORT", "int", PyInt(9090)),
    Dft("METRICS_PATH", "str", PyStr(<<"/", "metrics">>)) >>

\* values.get(k)
Get(values, k) == IF k \in DOMAIN values THEN values[k] ELSE None

\* the assembler without its isinstance(v, str) early return
assemble_db_connection_NoPassThrough(v, values) ==
    AnyUrl_build(
        [scheme |-> PyStr(<<"postgresql">>),
         username |-> Get(values, "POSTGRES_USER"),
         password |-> Get(values, "POSTGRES_PASSWORD"),
         host |-> Get(values, "POSTGRES_SERVER"),
         port |-> Get(values, "POSTGRES_PORT"),
         path |-> PyStr(<<"/">> \o Format(Or(Get(values, "POSTGRES_DB"), PyStr(<<>>))))])

\* @validator("SQLALCHEMY_DATABASE_URI", pre=True)
assemble_db_connection(v, values) ==
    IF v.t = "str" THEN v
    ELSE AnyUrl_build(
        [scheme |-> PyStr(<<"postgresql">>),
         username |-> Get(values, "POSTGRES_USER"),
         password |-> Get(values, "POSTGRES_PASSWORD"),
         host |-> Get(values, "POSTGRES_SERVER"),
         port |-> Get(values, "POSTGRES_PORT"),
         path |-> PyStr(<<"/">> \o Format(Or(Get(values, "POSTGRES_DB"), PyStr(<<>>))))])

\* @validator("REDIS_URI", pre=True)
assemble_redis_connection(v, values) ==
    IF v.t = "str" THEN v
    ELSE AnyUrl_build(
        [scheme |-> PyStr(<<"redis">>),
         host |-> Get(values, "REDIS_HOST"),
         port |-> Get(values, "REDIS_PORT"),
         password |-> Get(values, "REDIS_PASSWORD"),
         path |-> PyStr(<<"/">> \o Format(Or(Get(values, "REDIS_DB"), PyStr(<<"0">>))))])

\* the pre-validators of a Settings field
PreValidate(name, v, values) ==
    CASE name = "SQLALCHEMY_DATABASE_URI" -> assemble_db_connection(v, values)
      [] name = "REDIS_URI" -> assemble_redis_connection(v, values)
      [] OTHER -> v

\* the field taken from its pre-validator as it is, its declared type unchecked
FieldValidate_PreOnly(f, v, values) == PreValidate(f.name, v, values)

\* ModelField.validate: the pre-validators, then None for an Optional field
\* that is None, then the validators of the declared type
FieldValidate(f, v, values) ==
    LET pre == PreValidate(f.name, v, values)
    IN  IF IsRaise(pre) THEN pre
        ELSE IF pre.t = "none"
             THEN (IF f.optional THEN None ELSE Raise("NoneIsNotAllowedError"))
        ELSE TypeValidate(f.type, pre)

\* validate_model, one field: a required field that is missing is an error;
\* a missing field takes its default, which is validated as well when
\* Config.validate_all is set (BaseSettings sets it, BaseModel does not)
ValidateOne(f, input, values, validate_all) ==
    LET raw == IF f.name \in DOMAIN input THEN input[f.name] ELSE Absent
    IN  IF raw.t = "absent"
        THEN (IF f.required THEN Raise("MissingError")
              ELSE IF validate_all THEN FieldValidate(f, f.default, values)
              ELSE f.default)
        ELSE FieldValidate(f, raw, values)

\* validate_model: the fields in order; a field that fails is left out of
\* `values` and adds an error
RECURSIVE validate_model(_, _, _, _, _)
validate_model(fields, input, validate_all, i, acc) ==
    IF i > Len(fields) THEN acc
    ELSE LET f == fields[i]
             r == ValidateOne(f, input, acc.values, validate_all)
         IN  IF IsRaise(r)
             THEN validate_model(fields, input, validate_all, i + 1,
                    [values |-> acc.values, errors |-> acc.errors \cup {f.name}])
             ELSE validate_model(fields, input, validate_all, i + 1,
                    [values |-> acc.values @@ (f.name :> r), errors |-> acc.errors])

NoValues == [k \in {} |-> None]

\* Settings(): the values and the errors of validating the environment
LoadSettings(input) ==
    validate_model(SettingsFields, input, TRUE, 1, [values |-> NoValues, errors |-> {}])

----------------------------------------------------------------------------
\* the sub-configurations (src/types.py) and the projection getters

DatabaseConfigFields == <<
    Req("host", "str"), Req("port", "int"), Req("database", "str"),
    Req("user", "str"), Req("password", "str"),
    Fld("ssl_mode", "str", TRUE, FALSE, PyStr(<<"prefer">>)),
    Dft("pool_size", "int", PyInt(5)), Dft("max_overflow", "int", PyInt(10)) >>

CacheConfigFields == <<
    Req("host", "str"), Req("port", "int"), Dft("db", "int", PyInt(0)),
    Opt("password", "str"), Dft("ttl", "int", PyInt(3600)) >>

LogConfigFields == <<
    Dft("level", "str", PyStr(<<"INFO">>)), Dft("format", "str", LOG_FORMAT_DEFAULT),
    Opt("file", "str"), Dft("max_size", "int", PyInt(10485760)),
    Dft("backup_count", "int", PyInt(5)) >>

SecurityConfigFields == <<
    Req("secret_key", "str"), Dft("algorithm", "str", PyStr(<<"HS256">>)),
    Dft("access_token_expire_minutes", "int", PyInt(30)),
    Dft("refresh_token_expire_days", "int", PyInt(7)),
    Dft("allowed_hosts", "list", PyList(<<>>)),
    Dft("cors_origins", "list", PyList(<<>>)) >>

RateLimitConfigFields == <<
    Dft("enabled", "bool", PyBool(TRUE)), Dft("requests_per_minute", "int", PyInt(60)),
    Dft("burst_size", "int", PyInt(10)),
    Dft("storage", "Literal[memory,redis]", PyStr(<<"memory">>)) >>

MetricsConfigFields == <<
    Dft("enabled", "bool", PyBool(TRUE)), Dft("port", "int", PyInt(9090)),
    Dft("path", "str", PyStr(<<"/", "metrics">>)), Dft("labels", "dict", PyDict(<<>>)) >>

\* the outcome of a call: the object returned, or the exception raised
Returned(cfg) == [raised |-> FALSE, exc |-> "", cfg |-> cfg]
Raised(e) == [raised |-> TRUE, exc |-> e, cfg |-> NoValues]
NotCalled == [raised |-> FALSE, exc |-> "not called", cfg |-> NoValues]

\* BaseModel.__init__: validate the keyword arguments, raise ValidationError
\* when a field fails
BaseModel(fields, kwargs) ==
    LET r == validate_model(fields, kwargs, FALSE, 1, [values |-> NoValues, errors |-> {}])
    IN  IF r.errors = {} THEN Returned(r.values) ELSE Raised("ValidationError")

get_database_config(self) ==
    LET port == int(self["POSTGRES_PORT"])
    IN  IF IsRaise(port) THEN Raised(port.s[1])
        ELSE BaseModel(DatabaseConfigFields,
                [host |-> self["POSTGRES_SERVER"],
                 port |-> port,
                 database |-> self["POSTGRES_DB"],
                 user |-> self["POSTGRES_USER"],
                 password |-> self["POSTGRES_PASSWORD"]])

\* the projection with port and db taken from each other's field
get_cache_config_Swapped(self) ==
    BaseModel(CacheConfigFields,
        [host |-> self["REDIS_HOST"],
         port |-> self["REDIS_DB"],
         password |-> self["REDIS_PASSWORD"],
         db |-> self["REDIS_PORT"]])

get_cache_config(self) ==
    BaseModel(CacheConfigFields,
        [host |-> self["REDIS_HOST"],
         port |-> self["REDIS_PORT"],
         password |-> self["REDIS_PASSWORD"],
         db |-> self["REDIS_DB"]])

get_log_config(self) ==
    BaseModel(LogConfigFields,
        [level |-> self["LOG_LEVEL"],
         format |-> self["LOG_FORMAT"],
         file |-> self["LOG_FILE"]])

get_security_config(self) ==
    BaseModel(SecurityConfigFields,
        [secret_key |-> self["SECRET_KEY"],
         algorithm |-> self["ALGORITHM"],
         access_token_expire_minutes |-> self["ACCESS_TOKEN_EXPIRE_MINUTES"],
         refresh_token_expire_days |-> self["REFRESH_TOKEN_EXPIRE_DAYS"],
         allowed_hosts |-> self["ALLOWED_HOSTS"],
         cors_origins |-> self["CORS_ORIGINS"]])

get_rate_limit_config(self) ==
    BaseModel(RateLimitConfigFields,
        [enabled |-> self["RATE_LIMIT_ENABLED"],
         requests_per_minute |-> self["RATE_LIMIT_REQUESTS"],
         burst_size |-> self["RATE_LIMIT_BURST"],
         storage |-> self["RATE_LIMIT_STORAGE"]])

get_metrics_config(self) ==
    BaseModel(MetricsConfigFields,
        [enabled |-> self["METRICS_ENABLED"],
         port |-> self["METRICS_PORT"],
         path |-> self["METRICS_PATH"]])

Getters == {"get_database_config", "get_cache_config", "get_log_config",
            "get_security_config", "get_rate_limit_config", "get_metrics_config"}

Project(g, self) ==
    CASE g = "get_database_config" -> get_database_config(self)
      [] g = "get_cache_config" -> get_cache_config(self)
      [] g = "get_log_config" -> get_log_config(self)
      [] g = "get_security_config" -> get_security_config(self)
      [] g = "get_rate_limit_config" -> get_rate_limit_config(self)
      [] g = "get_metrics_config" -> get_metrics_config(self)

----------------------------------------------------------------------------
\* the environments the process is started in

S(tokens) == PyStr(tokens)

ExplicitDbUri == S(<<"postgresql", "://", "u", ":", "p", "@", "h", "/", "d">>)
PaddedDbUri == S(<<" ">> \o ExplicitDbUri.s \o <<" ">>)
MalformedDbUri == S(<<"garbage">>)
ExplicitRedisUri == S(<<"redis", "://", "r", ":", "6", "3", "8", "0", "/", "2">>)
PaddedRedisUri == S(<<" ">> \o ExplicitRedisUri.s)
MalformedRedisUri == S(<<"http", "://", "r">>)

\* every subset of the variables absent, the others at one value each
EnvSubsets ==
    [SECRET_KEY : {Absent, S(<<"k">>)},
     POSTGRES_SERVER : {Absent, S(<<"db">>)},
     POSTGRES_USER : {Absent, S(<<"app">>)},
     POSTGRES_PASSWORD : {Absent, S(<<"secret">>)},
     POSTGRES_DB : {Absent, S(<<"main">>)},
     POSTGRES_PORT : {Absent, S(<<"5", "4", "3", "2">>)},
     SQLALCHEMY_DATABASE_URI : {Absent, ExplicitDbUri},
     REDIS_HOST : {Absent, S(<<"cache">>)},
     REDIS_PORT : {Absent, S(<<"6", "3", "7", "9">>)},
     REDIS_PASSWORD : {Absent, S(<<"pw">>)},
     REDIS_DB : {Absent, S(<<"1">>)},
     REDIS_URI : {Absent, ExplicitRedisUri},
     OPENAI_API_KEY : {Absent, S(<<"sk">>)},
     RATE_LIMIT_STORAGE : {Absent, S(<<"disk">>)}]

\* every required variable present, over the values of each variable
EnvValues ==
    [SECRET_KEY : {S(<<"k">>)},
     POSTGRES_SERVER : {S(<<"db">>)},
     POSTGRES_USER : {S(<<"app">>)},
     POSTGRES_PASSWORD : {S(<<"secret">>)},
     POSTGRES_DB : {S(<<"main">>)},
     POSTGRES_PORT : {S(<<"5", "4", "3", "2">>), S(<<"abc">>), S(<<>>)},
     SQLALCHEMY_DATABASE_URI : {Absent, ExplicitDbUri, PaddedDbUri, MalformedDbUri},
     REDIS_HOST : {S(<<"cache">>)},
     REDIS_PORT : {S(<<"6", "3", "7", "9">>), S(<<"0">>)},
     REDIS_PASSWORD : {Absent, S(<<"pw">>)},
     REDIS_DB : {Absent, S(<<"1">>)},
     REDIS_URI : {Absent, ExplicitRedisUri, PaddedRedisUri, MalformedRedisUri},
     OPENAI_API_KEY : {S(<<"sk">>)},
     RATE_LIMIT_STORAGE : {Absent, S(<<"redis">>), S(<<"disk">>)}]

Environments == EnvSubsets \cup EnvValues

RequiredFields ==
    {"SECRET_KEY", "POSTGRES_SERVER", "POSTGRES_USER", "POSTGRES_PASSWORD",
     "POSTGRES_DB", "POSTGRES_PORT", "REDIS_HOST", "REDIS_PORT", "OPENAI_API_KEY"}

----------------------------------------------------------------------------
\* the settings loader as a state machine

NoCall == [op |-> "none"]

LoggingIdle == logconf = NoCall /\ fs = "absent"

TypesIdle == exc = NoCall /\ guard = NoCall /\ req = NoCall /\ LoggingIdle

Init ==
    /\ env \in Environments
    /\ phase = "unloaded"
    /\ settings = NoValues
    /\ errors = {}
    /\ last = [getter |-> "none", out |-> NotCalled]
    /\ prevSame = NotCalled
    /\ TypesIdle

\* settings = Settings(), at import of src/config.py
Load ==
    /\ phase = "unloaded"
    /\ LET r == LoadSettings(env)
       IN  IF r.errors = {}
           THEN phase' = "loaded" /\ settings' = r.values /\ errors' = {}
           ELSE phase' = "failed" /\ settings' = NoValues /\ errors' = r.errors
    /\ UNCHANGED <<env, last, prevSame, exc, guard, req, logconf, fs>>

\* settings.get_*_config()
Call(g) ==
    /\ phase = "loaded"
    /\ last' = [getter |-> g, out |-> Project(g, settings)]
    /\ prevSame' = IF last.getter = g THEN last.out ELSE NotCalled
    /\ UNCHANGED <<env, phase, settings, errors, exc, guard, req, logconf, fs>>

Next == Load \/ \E g \in Getters : Call(g)

Spec == Init /\ [][Next]_vars

----------------------------------------------------------------------------
\* the error taxonomy (src/types.py)

\* the keyword argument k, or `default` when the call does not pass it
KwDefault(kwargs, k, default) == IF k \in DOMAIN kwargs THEN kwargs[k] ELSE default

\* APIError.__init__ storing `details` as it is given
APIError_init_KeepsNone(message, status_code, details) ==
    [message |-> message, status_code |-> status_code, details |-> details]

\* APIError.__init__(self, message, status_code=500, details=None)
APIError_init(message, status_code, details) ==
    [message |-> message, status_code |-> status_code,
     details |-> Or(details, PyDict(<<>>))]

\* the constructor of each error class, on the arguments of the call
NewError(class, kwargs) ==
    CASE class = "APIError" ->
            APIError_init(kwargs.message, KwDefault(kwargs, "status_code", PyInt(500)),
                          KwDefault(kwargs, "details", None))
      [] class = "ValidationError" ->
            APIError_init(kwargs.message, PyInt(422), KwDefault(kwargs, "details", None))
      [] class = "AuthenticationError" ->
            APIError_init(KwDefault(kwargs, "message", PyStr(<<"Authentication failed">>)),
                          PyInt(401), None)
      [] class = "AuthorizationError" ->
            APIError_init(KwDefault(kwargs, "message", PyStr(<<"Not authorized">>)),
                          PyInt(403), None)
      [] class = "NotFoundError" ->
            APIError_init(KwDefault(kwargs, "message", PyStr(<<"Resource not found">>)),
                          PyInt(404), None)
      [] class = "RateLimitError" ->
            APIError_init(KwDefault(kwargs, "message", PyStr(<<"Rate limit exceeded">>)),
                          PyInt(429), None)

Messages == {PyStr(<<>>), PyStr(<<"boom">>), PyStr(<<"bad", " ", "input">>),
             PyStr(<<"Not authorized">>), PyStr(<<"4", "0", "4">>)}
DetailArgs == {None, PyDict(<<>>), PyDict(<<"field">>), PyDict(<<"field", "reason">>)}
StatusArgs == {PyInt(400), PyInt(404), PyInt(503)}

\* the calls of each constructor that its signature admits
ErrorCalls(class) ==
    LET m == {[message |-> x] : x \in Messages}
        md == {[message |-> x, details |-> d] : x \in Messages, d \in DetailArgs}
        ms == {[message |-> x, status_code |-> c] : x \in Messages, c \in StatusArgs}
        msd == {[message |-> x, status_code |-> c, details |-> d] :
                    x \in Messages, c \in StatusArgs, d \in DetailArgs}
    IN  CASE class = "APIError" -> m \cup md \cup ms \cup msd
          [] class = "ValidationError" -> m \cup md
          [] OTHER -> m \cup {NoValues}

ErrorClasses == {"APIError", "ValidationError", "AuthenticationError",
                 "AuthorizationError", "NotFoundError", "RateLimitError"}

----------------------------------------------------------------------------
\* the type guard is_valid_json (src/types.py)

MaxDepth == 1   \* how deep the containers passed to the guard nest
MaxItems == 2   \* how many elements a container passed to the guard holds

\* a Python object by its class; a list's elements and a dict's values are
\* its items (the keys of the dicts are strings)
Obj(class, items) == [class |-> class, items |-> items]

AtomClasses == {"NoneType", "bool", "int", "float", "str", "set", "bytes"}

RECURSIVE Objects(_)
Objects(depth) ==
    LET atoms == {Obj(c, <<>>) : c \in AtomClasses}
    IN  IF depth = 0 THEN atoms
        ELSE LET inner == Objects(depth - 1)
                 seqs == UNION {[1..n -> inner] : n \in 0..MaxItems}
             IN  atoms \cup {Obj(c, q) : c \in {"list", "dict"}, q \in seqs}

\* is_valid_json(value): one isinstance test on the value itself
is_valid_json(value) ==
    value.class \in {"dict", "list", "str", "int", "float", "bool", "NoneType"}

\* JSON-representable: null, a boolean, a number, a string, or a list or
\* dict all of whose elements are JSON-representable
RECURSIVE JsonRepresentable(_)
JsonRepresentable(value) ==
    \/ value.class \in {"NoneType", "bool", "int", "float", "str"}
    \/ /\ value.class \in {"list", "dict"}
       /\ \A i \in 1..Len(value.items) : JsonRepresentable(value.items[i])

----------------------------------------------------------------------------
\* AIRequest (src/types.py). Lengths stand for the strings and lists they
\* measure; the float fields are in tenths (1.5 is 15).

prompt_min_length == 1
prompt_max_length == 4000
temperature_ge == 0
temperature_le == 10
max_tokens_ge == 1
max_tokens_le == 4000
top_p_ge == 0
top_p_le == 10
frequency_penalty_ge == -20
frequency_penalty_le == 20
presence_penalty_ge == -20
presence_penalty_le == 20
stop_max_items == 4
system_message_max_length == 4000

ModelName == {"gpt-4", "gpt-4-turbo-preview", "gpt-3.5-turbo", "claude-3-opus",
              "claude-3-sonnet", "claude-2.1", "claude-2"}

\* the constraints with le taken for lt
Within_Lt(v, ge, le) ==
    /\ ge.t = "int" => v.n >= ge.n
    /\ le.t = "int" => v.n < le.n

\* ge <= v <= le, with a bound left out when it is None
Within(v, ge, le) ==
    /\ ge.t = "int" => v.n >= ge.n
    /\ le.t = "int" => v.n <= le.n

\* a constrained field: the value, None for an Optional field left unset
Constrained(v, optional, ge, le) ==
    IF v.t = "none" THEN optional ELSE Within(v, ge, le)

\* AIRequest(**kwargs): the fields that fail their declared constraints;
\* ValidationError when there is one
AIRequest(kwargs) ==
    LET failed ==
          {k \in DOMAIN kwargs :
              \/ k = "prompt" /\ ~Constrained(kwargs.prompt, FALSE,
                        PyInt(prompt_min_length), PyInt(prompt_max_length))
              \/ k = "model" /\ kwargs.model \notin ModelName
              \/ k = "temperature" /\ ~Constrained(kwargs.temperature, FALSE,
                        PyInt(temperature_ge), PyInt(temperature_le))
              \/ k = "max_tokens" /\ ~Constrained(kwargs.max_tokens, TRUE,
                        PyInt(max_tokens_ge), PyInt(max_tokens_le))
              \/ k = "top_p" /\ ~Constrained(kwargs.top_p, FALSE,
                        PyInt(top_p_ge), PyInt(top_p_le))
              \/ k = "frequency_penalty" /\ ~Constrained(kwargs.frequency_penalty, FALSE,
                        PyInt(frequency_penalty_ge), PyInt(frequency_penalty_le))
              \/ k = "presence_penalty" /\ ~Constrained(kwargs.presence_penalty, FALSE,
                        PyInt(presence_penalty_ge), PyInt(presence_penalty_le))
              \/ k = "stop" /\ ~Constrained(kwargs.stop, TRUE, None, PyInt(stop_max_items))
              \/ k = "system_message" /\ ~Constrained(kwargs.system_message, TRUE,
                        None, PyInt(system_message_max_length))}
    IN  IF failed = {} THEN Returned(kwargs) ELSE Raised("ValidationError")

\* the values around the two ends of a range
Around(ge, le) == {PyInt(ge - 1), PyInt(ge), PyInt(le), PyInt(le + 1)}

RequestCalls ==
    [prompt : Around(prompt_min_length, prompt_max_length),
     model : {"gpt-4", "claude-2", "gpt-5"},
     temperature : Around(temperature_ge, temperature_le) \cup {PyInt(15)},
     max_tokens : {None, PyInt(max_tokens_ge - 1), PyInt(max_tokens_le)},
     top_p : {PyInt(top_p_ge - 1), PyInt(top_p_le), PyInt(15)},
     frequency_penalty : Around(frequency_penalty_ge, frequency_penalty_le),
     presence_penalty : Around(presence_penalty_ge, presence_penalty_le),
     stop : {None, PyInt(0), PyInt(stop_max_items), PyInt(stop_max_items + 1)},
     system_message : {None, PyInt(system_message_max_length),
                       PyInt(system_message_max_length + 1)}]

----------------------------------------------------------------------------
\* the type catalog as state machines

SettingsIdle ==
    /\ env = NoValues
    /\ phase = "unloaded"
    /\ settings = NoValues
    /\ errors = {}
    /\ last = [getter |-> "none", out |-> NotCalled]
    /\ prevSame = NotCalled

InitTypes == SettingsIdle /\ TypesIdle

\* raise-site of an error: class(**kwargs)
Construct(class, kwargs) ==
    /\ exc' = [op |-> class, kwargs |-> kwargs, obj |-> NewError(class, kwargs)]
    /\ UNCHANGED <<env, phase, settings, errors, last, prevSame, guard, req, logconf, fs>>

NextErrors == \E class \in ErrorClasses : \E kwargs \in ErrorCalls(class) : Construct(class, kwargs)

SpecErrors == InitTypes /\ [][NextErrors]_vars

\* is_valid_json(value)
Guard(value) ==
    /\ guard' = [op |-> "is_valid_json", value |-> value, out |-> is_valid_json(value)]
    /\ UNCHANGED <<env, phase, settings, errors, last, prevSame, exc, req, logconf, fs>>

NextGuard == \E value \in Objects(MaxDepth) : Guard(value)

SpecGuard == InitTypes /\ [][NextGuard]_vars

\* a call of AIRequest about to be made, with its arguments
InitRequest ==
    /\ SettingsIdle
    /\ exc = NoCall /\ guard = NoCall /\ LoggingIdle
    /\ req \in {[op |-> "call", kwargs |-> k, out |-> NotCalled] : k \in RequestCalls}

\* AIRequest(**kwargs)
NewRequest ==
    /\ req.op = "call"
    /\ req' = [op |-> "AIRequest", kwargs |-> req.kwargs, out |-> AIRequest(req.kwargs)]
    /\ UNCHANGED <<env, phase, settings, errors, last, prevSame, exc, guard, logconf, fs>>

NextRequest == NewRequest

SpecRequest == InitRequest /\ [][NextRequest]_vars

----------------------------------------------------------------------------
\* get_logging_config (src/core/logging.py)

DEFAULT_LOG_FORMAT == PyStr(<<"%(asctime)s - %(name)s - %(levelname)s - %(message)s">>)
DEV_LOG_FORMAT ==
    PyStr(<<"%(asctime)s - %(name)s - %(levelname)s - %(pathname)s:%(funcName)s:%(lineno)d - %(message)s">>)
DATEFMT == PyStr(<<"%Y-%m-%d %H:%M:%S">>)

\* config["formatters"]
Formatters(log_format) ==
    [default |-> [format |-> Or(log_format, DEFAULT_LOG_FORMAT), datefmt |-> DATEFMT],
     dev |-> [format |-> DEV_LOG_FORMAT, datefmt |-> DATEFMT]]

\* config["handlers"]["console"]
ConsoleHandler(log_level, is_development) ==
    [class |-> "logging.StreamHandler",
     level |-> log_level,
     formatter |-> IF is_development THEN "dev" ELSE "default",
     stream |-> "ext://sys.stdout"]

\* the file handler with maxBytes and backupCount taken from each other
FileHandler_Swapped(log_level, log_file, max_bytes, backup_count) ==
    [class |-> "logging.handlers.RotatingFileHandler",
     level |-> log_level,
     formatter |-> "default",
     filename |-> log_file,
     maxBytes |-> backup_count,
     backupCount |-> max_bytes]

\* config["handlers"]["file"]
FileHandler(log_level, log_file, max_bytes, backup_count) ==
    [class |-> "logging.handlers.RotatingFileHandler",
     level |-> log_level,
     formatter |-> "default",
     filename |-> log_file,
     maxBytes |-> max_bytes,
     backupCount |-> backup_count]

\* Path(log_file).parent: what precedes the last "/", "." when there is none
Parent(log_file) ==
    LET slashes == {i \in 1..Len(log_file.s) : log_file.s[i] = "/"}
    IN  IF slashes = {} THEN <<".">>
        ELSE SubSeq(log_file.s, 1, (CHOOSE i \in slashes : \A j \in slashes : i >= j) - 1)

\* what is at a directory path: the current directory is a directory, "logs"
\* is what the file system holds there
StatusOf(dir, files) == IF dir = <<".">> THEN "dir" ELSE files

\* log_dir.mkdir(parents=True, exist_ok=True): the exception it raises, if any
MkdirError(dir, files) ==
    CASE StatusOf(dir, files) = "file" -> "FileExistsError"
      [] StatusOf(dir, files) = "denied" -> "PermissionError"
      [] OTHER -> ""

\* the file system after log_dir.mkdir(parents=True, exist_ok=True)
MkdirEffect(dir, files) ==
    IF dir # <<".">> /\ files = "absent" THEN "dir" ELSE files

\* the configuration before the `if log_file:` block
BaseLoggingConfig(a) ==
    [version |-> 1,
     disable_existing_loggers |-> FALSE,
     formatters |-> Formatters(a.log_format),
     handlers |-> [h \in {"console"} |-> ConsoleHandler(a.log_level, a.is_development)],
     root |-> [level |-> a.log_level, handlers |-> <<"console">>]]

\* the configuration after the `if log_file:` block has run
WithFileHandler(config, a) ==
    [config EXCEPT
        !.handlers = config.handlers @@
            [h \in {"file"} |-> FileHandler(a.log_level, a.log_file, a.max_bytes, a.backup_count)],
        !.root.handlers = Append(config.root.handlers, "file")]

\* get_logging_config(log_level, log_format, log_file, max_bytes,
\* backup_count, is_development): what it returns or raises
get_logging_config(a, files) ==
    IF Truthy(a.log_file)
    THEN IF MkdirError(Parent(a.log_file), files) # ""
         THEN Raised(MkdirError(Parent(a.log_file), files))
         ELSE Returned(WithFileHandler(BaseLoggingConfig(a), a))
    ELSE Returned(BaseLoggingConfig(a))

\* the calls made: log_file absent, empty, in the current directory or in
\* the directory "logs"
LoggingCalls ==
    [log_level : {PyStr(<<"INFO">>), PyStr(<<"DEBUG">>)},
     log_format : {None, PyStr(<<>>), PyStr(<<"%(message)s">>)},
     log_file : {None, PyStr(<<>>), PyStr(<<"app.log">>), PyStr(<<"logs", "/", "app.log">>)},
     max_bytes : {PyInt(10485760), PyInt(1024), PyInt(0)},
     backup_count : {PyInt(5), PyInt(0)},
     is_development : BOOLEAN]

InitLogging ==
    /\ SettingsIdle
    /\ exc = NoCall /\ guard = NoCall /\ req = NoCall
    /\ logconf = NoCall
    /\ fs \in {"absent", "dir", "file", "denied"}

\* get_logging_config(**a)
GetLoggingConfig(a) ==
    /\ logconf' = [op |-> "get_logging_config", args |-> a, files |-> fs,
                   out |-> get_logging_config(a, fs)]
    /\ fs' = IF Truthy(a.log_file) /\ MkdirError(Parent(a.log_file), fs) = ""
             THEN MkdirEffect(Parent(a.log_file), fs) ELSE fs
    /\ UNCHANGED <<env, phase, settings, errors, last, prevSame, exc, guard, req>>

NextLogging == \E a \in LoggingCalls : GetLoggingConfig(a)

SpecLogging == InitLogging /\ [][NextLogging]_vars

----------------------------------------------------------------------------
\* the claims about the settings loader, checked under Spec

Loaded == phase = "loaded"
Supplied(k) == env[k].t # "absent"

AbsentRequired == {k \in RequiredFields : ~Supplied(k)}

\* the URI the specification gives for the discrete database fields
SpecDbUri(user, password, host, port, database) ==
    PyStr(<<"postgresql", "://">> \o user \o <<":">> \o password \o <<"@">>
          \o host \o <<":">> \o port \o <<"/">> \o database)

\* C1: loaded without an explicit SQLALCHEMY_DATABASE_URI and with a numeric
\* POSTGRES_PORT, the field equals
\* postgresql://{user}:{password}@{host}:{port}/{database}, the user included.
C1_DbUriHasAllFiveParts ==
    (Loaded /\ ~Supplied("SQLALCHEMY_DATABASE_URI") /\ AllDigits(env.POSTGRES_PORT.s))
        => settings["SQLALCHEMY_DATABASE_URI"] =
              SpecDbUri(env.POSTGRES_USER.s, env.POSTGRES_PASSWORD.s,
                        env.POSTGRES_SERVER.s, env.POSTGRES_PORT.s, env.POSTGRES_DB.s)

\* the URI the specification gives for the discrete cache fields
SpecRedisUri(password, host, port, db) ==
    PyStr(<<"redis", "://">>
          \o (IF password.t = "str" THEN <<":">> \o password.s \o <<"@">> ELSE <<>>)
          \o host \o <<":">> \o port \o <<"/">> \o db)

\* C2: with every required field given and no explicit REDIS_URI, the
\* REDIS_URI field does not fail validation, and once loaded it equals
\* redis://[:{password}@]{host}:{port}/{db}, the db being 0 when REDIS_DB is
\* not given.
C2_RedisUriAssembled ==
    (phase # "unloaded" /\ ~Supplied("REDIS_URI") /\ AbsentRequired = {})
        => /\ "REDIS_URI" \notin errors
           /\ Loaded => settings["REDIS_URI"] =
                  SpecRedisUri(env.REDIS_PASSWORD, env.REDIS_HOST.s, env.REDIS_PORT.s,
                               IF Supplied("REDIS_DB") THEN env.REDIS_DB.s ELSE <<"0">>)

\* C3: whenever a required field is absent from the environment, Settings()
\* raises a validation error that names every absent required field, and no
\* Settings object exists, whether or not explicit URIs are supplied.
C3_MissingRequiredFails ==
    (phase # "unloaded" /\ AbsentRequired # {})
        => phase = "failed" /\ settings = NoValues /\ AbsentRequired \subseteq errors

\* C3 witness: the load failed with the database host absent, the database
\* URI assembled from the remaining fields and the cache URI explicit.
C3_Witness ==
    /\ phase = "failed"
    /\ AbsentRequired = {"POSTGRES_SERVER"}
    /\ ~Supplied("SQLALCHEMY_DATABASE_URI")
    /\ env.REDIS_URI = ExplicitRedisUri
    /\ errors = {"POSTGRES_SERVER", "SQLALCHEMY_DATABASE_URI"}

C5_MalformedAccepted ==
    phase # "unloaded" =>
        /\ env.SQLALCHEMY_DATABASE_URI = MalformedDbUri
              => "SQLALCHEMY_DATABASE_URI" \notin errors
        /\ env.REDIS_URI = MalformedRedisUri => "REDIS_URI" \notin errors

\* C5 amended: a malformed explicit URI is rejected by the validation of the
\* field's declared type (PostgresDsn, RedisDsn): Settings() raises a
\* validation error naming the field and no Settings object exists.
C5_MalformedRejected ==
    phase # "unloaded" =>
        /\ env.SQLALCHEMY_DATABASE_URI = MalformedDbUri
              => phase = "failed" /\ settings = NoValues
                   /\ "SQLALCHEMY_DATABASE_URI" \in errors
        /\ env.REDIS_URI = MalformedRedisUri
              => phase = "failed" /\ settings = NoValues /\ "REDIS_URI" \in errors

\* C5 witness: the only thing wrong with the environment is the malformed
\* explicit database URI, and the load failed on exactly that field.
C5_Witness ==
    /\ phase = "failed"
    /\ env.SQLALCHEMY_DATABASE_URI = MalformedDbUri
    /\ env.REDIS_URI = ExplicitRedisUri
    /\ errors = {"SQLALCHEMY_DATABASE_URI"}

\* C6: on a loaded Settings no projection getter raises.
C6_GettersNeverRaise ==
    last.getter # "none" => ~last.out.raised

\* the Settings field each field of a sub-configuration is taken from
Corresponding(g) ==
    CASE g = "get_database_config" ->
            [host |-> "POSTGRES_SERVER", port |-> "POSTGRES_PORT",
             database |-> "POSTGRES_DB", user |-> "POSTGRES_USER",
             password |-> "POSTGRES_PASSWORD"]
      [] g = "get_cache_config" ->
            [host |-> "REDIS_HOST", port |-> "REDIS_PORT",
             password |-> "REDIS_PASSWORD", db |-> "REDIS_DB"]
      [] g = "get_log_config" ->
            [level |-> "LOG_LEVEL", format |-> "LOG_FORMAT", file |-> "LOG_FILE"]
      [] g = "get_security_config" ->
            [secret_key |-> "SECRET_KEY", algorithm |-> "ALGORITHM",
             access_token_expire_minutes |-> "ACCESS_TOKEN_EXPIRE_MINUTES",
             refresh_token_expire_days |-> "REFRESH_TOKEN_EXPIRE_DAYS",
             allowed_hosts |-> "ALLOWED_HOSTS", cors_origins |-> "CORS_ORIGINS"]
      [] g = "get_rate_limit_config" ->
            [enabled |-> "RATE_LIMIT_ENABLED", requests_per_minute |-> "RATE_LIMIT_REQUESTS",
             burst_size |-> "RATE_LIMIT_BURST", storage |-> "RATE_LIMIT_STORAGE"]
      [] g = "get_metrics_config" ->
            [enabled |-> "METRICS_ENABLED", port |-> "METRICS_PORT", path |-> "METRICS_PATH"]

\* C10 as stated: every field of a sub-configuration a getter returned
\* equals the Settings field it corresponds to.
C10_ProjectionFieldsEqual ==
    (last.getter # "none" /\ ~last.out.raised) =>
        \A k \in DOMAIN Corresponding(last.getter) :
            last.out.cfg[k] = settings[Corresponding(last.getter)[k]]

\* C10 amended: a getter call leaves the Settings as it was loaded; a second
\* call of the same getter has the outcome of the first; and every field of
\* a returned sub-configuration equals the Settings field it corresponds
\* to, except DatabaseConfig.port, which is the integer POSTGRES_PORT spells.
C10_ProjectionPure ==
    last.getter # "none" =>
        /\ Loaded /\ settings = LoadSettings(env).values
        /\ prevSame # NotCalled => prevSame = last.out
        /\ ~last.out.raised =>
              \A k \in DOMAIN Corresponding(last.getter) :
                  last.out.cfg[k] =
                      IF last.getter = "get_database_config" /\ k = "port"
                      THEN PyInt(DecimalValue(settings["POSTGRES_PORT"].s))
                      ELSE settings[Corresponding(last.getter)[k]]

\* C10 witness: get_cache_config was called twice in a row on a Settings
\* whose cache port and db index differ, and returned both times.
C10_Witness ==
    /\ last.getter = "get_cache_config"
    /\ prevSame # NotCalled
    /\ ~last.out.raised
    /\ settings["REDIS_PORT"] # settings["REDIS_DB"]

----------------------------------------------------------------------------
\* the claims about the type catalog

DefaultStatus(class) ==
    CASE class = "ValidationError" -> 422
      [] class = "AuthenticationError" -> 401
      [] class = "AuthorizationError" -> 403
      [] class = "NotFoundError" -> 404
      [] class = "RateLimitError" -> 429
      [] class = "APIError" -> 500

DefaultMessage(class) ==
    CASE class = "AuthenticationError" -> <<"Authentication failed">>
      [] class = "AuthorizationError" -> <<"Not authorized">>
      [] class = "NotFoundError" -> <<"Resource not found">>
      [] class = "RateLimitError" -> <<"Rate limit exceeded">>

\* C7: an error constructed without a status_code carries the default
\* status of its class (422, 401, 403, 404, 429; 500 for APIError), its
\* message is the message given or else the default message of its class,
\* and its details are a mapping: the one given when that is not empty, the
\* empty mapping otherwise, never None.
C7_ErrorDefaults ==
    exc.op # "none" =>
        /\ "status_code" \notin DOMAIN exc.kwargs
              => exc.obj.status_code = PyInt(DefaultStatus(exc.op))
        /\ exc.obj.message = IF "message" \in DOMAIN exc.kwargs THEN exc.kwargs.message
                             ELSE PyStr(DefaultMessage(exc.op))
        /\ exc.obj.details.t = "dict"
        /\ exc.obj.details =
              IF "details" \in DOMAIN exc.kwargs /\ exc.kwargs.details.t = "dict"
              THEN exc.kwargs.details ELSE PyDict(<<>>)

\* C7 witness: a ValidationError constructed with details=None.
C7_Witness ==
    /\ exc.op = "ValidationError"
    /\ "details" \in DOMAIN exc.kwargs
    /\ exc.kwargs.details = None
    /\ exc.obj.status_code = PyInt(422)
    /\ exc.obj.details = PyDict(<<>>)

\* C8: is_valid_json(value) is True exactly when value is JSON-representable
\* all the way down: a list or dict holding a value that is not gives False.
C8_GuardIsRecursive ==
    guard.op # "none" => (guard.out <=> JsonRepresentable(guard.value))

InRange(v, lo, hi) == v.t = "int" /\ lo <= v.n /\ v.n <= hi

\* the constraints C9 lists, on the arguments of a call
C9_Listed(k) ==
    /\ InRange(k.prompt, 1, 4000)
    /\ InRange(k.temperature, 0, 10)
    /\ InRange(k.top_p, 0, 10)
    /\ InRange(k.frequency_penalty, -20, 20)
    /\ InRange(k.presence_penalty, -20, 20)
    /\ k.stop = None \/ InRange(k.stop, 0, 4)

\* C9 as stated: AIRequest is accepted exactly when the prompt length is in
\* [1, 4000], temperature and top_p are in [0.0, 1.0], the two penalties are
\* in [-2.0, 2.0] and stop is absent or has at most 4 entries.
C9_AcceptedIffListed ==
    req.op = "AIRequest" => (~req.out.raised <=> C9_Listed(req.kwargs))

\* C9 amended: AIRequest is accepted exactly when the listed constraints
\* hold and also model is one of the ModelName literals, max_tokens is
\* absent or in [1, 4000] and system_message is absent or at most 4000 long;
\* otherwise it raises a validation error. An accepted request holds the
\* arguments given.
C9_AcceptedIffAll ==
    req.op = "AIRequest" =>
        /\ ~req.out.raised <=>
              /\ C9_Listed(req.kwargs)
              /\ req.kwargs.model \in ModelName
              /\ req.kwargs.max_tokens = None \/ InRange(req.kwargs.max_tokens, 1, 4000)
              /\ req.kwargs.system_message = None
                    \/ InRange(req.kwargs.system_message, 0, 4000)
        /\ req.out.raised => req.out.exc = "ValidationError"
        /\ ~req.out.raised => req.out.cfg = req.kwargs

\* C9 witness: a request at the upper end of every range was accepted.
C9_Witness ==
    /\ req.op = "AIRequest"
    /\ ~req.out.raised
    /\ req.kwargs.prompt = PyInt(4000)
    /\ req.kwargs.temperature = PyInt(10)
    /\ req.kwargs.stop = PyInt(4)

----------------------------------------------------------------------------
\* the claims about get_logging_config, checked under SpecLogging

\* C11: a configuration get_logging_config returned has the root handler
\* list ['console'] and the one handler console when log_file is None or
\* empty, and ['console', 'file'] with the two handlers when log_file is
\* given; console is a StreamHandler on stdout whose formatter is 'dev' iff
\* is_development; file is a RotatingFileHandler with the given filename,
\* max_bytes and backup_count and the formatter 'default', whatever
\* is_development is. The call raises only when log_file is given and its
\* directory cannot be made.
C11_LoggingHandlers ==
    logconf.op # "none" =>
        LET a == logconf.args
            given == a.log_file.t = "str" /\ a.log_file.s # <<>>
            c == logconf.out.cfg
        IN  /\ logconf.out.raised => given /\ logconf.files \in {"file", "denied"}
            /\ ~logconf.out.raised =>
                  /\ c.root.handlers = IF given THEN <<"console", "file">> ELSE <<"console">>
                  /\ DOMAIN c.handlers = IF given THEN {"console", "file"} ELSE {"console"}
                  /\ c.handlers["console"].class = "logging.StreamHandler"
                  /\ c.handlers["console"].stream = "ext://sys.stdout"
                  /\ c.handlers["console"].formatter = "dev" <=> a.is_development
                  /\ c.handlers["console"].formatter \in {"dev", "default"}
                  /\ given =>
                        /\ c.handlers["file"].class = "logging.handlers.RotatingFileHandler"
                        /\ c.handlers["file"].filename = a.log_file
                        /\ c.handlers["file"].maxBytes = a.max_bytes
                        /\ c.handlers["file"].backupCount = a.backup_count
                        /\ c.handlers["file"].formatter = "default"

\* C11 witness: a call with is_development true and a log file under
\* "logs" returned a configuration with both handlers.
C11_Witness ==
    /\ logconf.op = "get_logging_config"
    /\ ~logconf.out.raised
    /\ logconf.args.is_development
    /\ logconf.args.log_file = PyStr(<<"logs", "/", "app.log">>)
    /\ logconf.args.max_bytes # logconf.args.backup_count
    /\ logconf.out.cfg.root.handlers = <<"console", "file">>
    /\ logconf.out.cfg.handlers["console"].formatter = "dev"
    /\ fs = "dir"

====
